---- MODULE Spec2Model ----
(***************************************************************************)
(* Model of the user-management layer of Forum.PRCF: the profiles table,   *)
(* the update_username and set_totp_enabled RPC functions, and the TOTP    *)
(* enable / disable flows of TotpSetupDialog and ProfilePage.              *)
(*                                                                         *)
(* Text values are sequences of code points; SQL NULL is a distinguished   *)
(* value of each type.                                                     *)
(***************************************************************************)
EXTENDS Integers, Sequences, FiniteSets, TLC

(* ------------------------------ bounds -------------------------------- *)

\* number of user ids (auth.users) the model considers
NumUsers == 2

\* number of factor ids the auth provider can hand out
MaxFactors == 2

\* number of mfa.enroll calls, and of handleVerifyCode runs, in flight at once
MaxInFlight == 1

(* ------------------------- program constants -------------------------- *)

\* IF char_length(new_username) < 3
MinUsernameLen == 3

\* IF char_length(new_username) > 30
MaxUsernameLen == 30

(* --------------------------- SQL values ------------------------------- *)

\* SQL NULL of type TEXT (no code point is negative)
NullText == <<-1>>

\* SQL NULL of type UUID: auth.uid() of an anonymous or service-role caller
NullUid == 0

IsNull(t) == t = NullText

UserIds == 1..NumUsers

\* the values auth.uid() can take
Callers == UserIds \cup {NullUid}

\* n copies of the code point c
Rep(c, n) == [i \in 1..n |-> c]

\* strings a caller may pass as new_username (NULL included: the function
\* is not declared STRICT)
InputNames ==
  { <<>>,                        \* ''
    <<97, 65>>,                  \* 'aA'
    <<97, 97, 97>>,              \* 'aaa'
    <<65, 97, 65>>,              \* 'AaA'
    <<97, 98, 65>>,              \* 'abA'
    <<97, 45, 97>>,              \* 'a-a'
    <<97, 95, 46>>,              \* 'a_.'
    <<97, 48, 233>>,             \* 'a0' and e-acute
    <<97, 97, 128512>>,          \* 'aa' and U+1F600 (two UTF-16 units)
    Rep(97, MaxUsernameLen),     \* 30 x 'a'
    Rep(65, MaxUsernameLen),     \* 30 x 'A'
    Rep(97, MaxUsernameLen + 1), \* 31 x 'a'
    NullText }

\* usernames rows may hold before the first update_username call: the
\* create-user function stores any non-empty username unvalidated, and a
\* fresh profile has none
InitNames ==
  { NullText, <<97, 65>>, <<97, 97, 97>>, <<65, 97, 65>>,
    Rep(97, MaxUsernameLen), <<97, 45, 97>> }

(* ------------------------- error messages ----------------------------- *)

NoError == "none"

ErrTooShort == "Le nom d'utilisateur doit contenir au moins 3 caracteres."

ErrTooLong == "Le nom d'utilisateur ne peut pas depasser 30 caracteres."

ErrBadChars == "Le nom d'utilisateur ne peut contenir que des lettres (a-z, A-Z), des chiffres (0-9), des underscores (_) ou des points (.)."

ErrTaken == "Ce nom d'utilisateur est deja pris."

ErrTotpNoProfile == "User profile not found or not authorized to update TOTP status."

(* --------------------------- SQL functions ---------------------------- *)

\* char_length(text)
char_length(t) == Len(t)

\* lower(text): folds A-Z to a-z, leaves every other code point alone
lower(t) == [i \in 1..Len(t) |-> IF t[i] \in 65..90 THEN t[i] + 32 ELSE t[i]]

\* the bracket expression [a-zA-Z0-9_.]
UsernameChars == (97..122) \cup (65..90) \cup (48..57) \cup {95, 46}

\* text ~ '^[a-zA-Z0-9_.]+$'
MatchesUsernameRegex(t) ==
  /\ Len(t) >= 1
  /\ \A i \in 1..Len(t) : t[i] \in UsernameChars

\* a record variable of type public.profiles: <<row>>, or <<>> for the
\* all-NULL record that RETURNING * INTO leaves when no row was updated
NullRecord == <<>>

(* ----------------------------- the database --------------------------- *)

VARIABLES
  profiles,   \* public.profiles: id -> row, for the ids that have a row
  lastCall,   \* the RPC call that completed last, with the table before it
  factors,    \* auth provider: status of each TOTP factor of the signed-in user
  ctxTotp,    \* is_totp_enabled of the profile held by the client (useAuth)
  dlg,        \* TotpSetupDialog: isOpen and the component's state
  enrolling,  \* number of enrollTotp runs waiting for mfa.enroll
  verif,      \* handleVerifyCode runs in flight: position and locals
  dis,        \* ProfilePage disable state and the handleDisableTotp run
  lastEvent,  \* what the last step of a handler did
  ctx,        \* UserContext as UserManagementPage sees it (useUser)
  page,       \* UserManagementPage: the component's state
  run,        \* UserManagementPage: the row action waiting for the backend
  fetching,   \* UserManagementPage: fetchUsers runs waiting for the RPC
  latestFetch,\* the answer to the fetchUsers run started last, remembered
              \* while runs started before it are in flight
  authUsers,  \* auth.users: id -> email, for the ids that have an account
  response,   \* create-user: the last request and the response it got
  calls,      \* update_username calls between their check and their UPDATE
  usernameKey \* whether profiles.username has the UNIQUE constraint

uiVars == <<factors, ctxTotp, dlg, enrolling, verif, dis, lastEvent>>

adminVars == <<ctx, page, run, fetching, latestFetch>>

edgeVars == <<authUsers, response>>

callVars == <<calls, usernameKey>>

\* IF char_length(new_username) < 3 (NULL < 3 is NULL, which IF takes as false)
TooShort(new_username) ==
  ~IsNull(new_username) /\ char_length(new_username) < MinUsernameLen

\* variant: the upper bound off by one
TooLongOffByOne(new_username) ==
  ~IsNull(new_username) /\ char_length(new_username) > MaxUsernameLen + 1

\* IF char_length(new_username) > 30
TooLong(new_username) ==
  ~IsNull(new_username) /\ char_length(new_username) > MaxUsernameLen

\* IF new_username !~ '^[a-zA-Z0-9_.]+$'
BadChars(new_username) ==
  ~IsNull(new_username) /\ ~MatchesUsernameRegex(new_username)

\* variant: the comparison made case-sensitively
UsernameTakenExact(rows, current_user_id, new_username) ==
  \E id \in DOMAIN rows :
    /\ ~IsNull(rows[id].username)
    /\ ~IsNull(new_username)
    /\ rows[id].username = new_username
    /\ current_user_id # NullUid
    /\ id # current_user_id

\* variant: only the stored username is folded to lower case
UsernameTakenOneSided(rows, current_user_id, new_username) ==
  \E id \in DOMAIN rows :
    /\ ~IsNull(rows[id].username)
    /\ ~IsNull(new_username)
    /\ lower(rows[id].username) = new_username
    /\ current_user_id # NullUid
    /\ id # current_user_id

\* EXISTS (SELECT 1 FROM profiles
\*         WHERE lower(username) = lower(new_username) AND id <> current_user_id)
\* a comparison with a NULL operand is NULL and the row is not selected
UsernameTaken(rows, current_user_id, new_username) ==
  \E id \in DOMAIN rows :
    /\ ~IsNull(rows[id].username)
    /\ ~IsNull(new_username)
    /\ lower(rows[id].username) = lower(new_username)
    /\ current_user_id # NullUid
    /\ id # current_user_id

\* variant: the UPDATE without its WHERE clause
SetUsernameAllRows(rows, current_user_id, new_username) ==
  [id \in DOMAIN rows |-> [rows[id] EXCEPT !.username = new_username]]

\* UPDATE profiles SET username = new_username WHERE id = current_user_id
SetUsername(rows, current_user_id, new_username) ==
  [id \in DOMAIN rows |->
     IF current_user_id # NullUid /\ id = current_user_id
     THEN [rows[id] EXCEPT !.username = new_username]
     ELSE rows[id]]

\* RETURNING * INTO updated_profile, on the table after the UPDATE
Returning(rows, current_user_id) ==
  IF current_user_id # NullUid /\ current_user_id \in DOMAIN rows
  THEN <<rows[current_user_id]>>
  ELSE NullRecord

\* public.update_username(new_username TEXT), run to completion by a caller
\* whose auth.uid() is uid.  An exception leaves the table as it was.
update_username(rows, uid, new_username) ==
  LET raise(msg) == [raised |-> msg, rows |-> rows, ret |-> NullRecord]
      updated == SetUsername(rows, uid, new_username)
  IN  IF TooShort(new_username) THEN raise(ErrTooShort)
      ELSE IF TooLong(new_username) THEN raise(ErrTooLong)
      ELSE IF BadChars(new_username) THEN raise(ErrBadChars)
      ELSE IF UsernameTaken(rows, uid, new_username) THEN raise(ErrTaken)
      ELSE [raised |-> NoError, rows |-> updated,
            ret |-> Returning(updated, uid)]

\* variant: the UPDATE without its WHERE clause
SetTotpFlagAllRows(rows, uid, p_is_enabled) ==
  [id \in DOMAIN rows |-> [rows[id] EXCEPT !.is_totp_enabled = p_is_enabled]]

\* UPDATE profiles SET is_totp_enabled = p_is_enabled WHERE id = auth.uid()
SetTotpFlag(rows, uid, p_is_enabled) ==
  [id \in DOMAIN rows |->
     IF uid # NullUid /\ id = uid
     THEN [rows[id] EXCEPT !.is_totp_enabled = p_is_enabled]
     ELSE rows[id]]

\* variant: the NOT FOUND test never fires
FoundAlways(rows, uid) == TRUE

\* FOUND after the UPDATE: it processed at least one row
Found(rows, uid) == uid # NullUid /\ uid \in DOMAIN rows

\* public.set_totp_enabled(p_is_enabled BOOLEAN), run to completion by a
\* caller whose auth.uid() is uid.  The exception undoes the UPDATE.
set_totp_enabled(rows, uid, p_is_enabled) ==
  IF ~Found(rows, uid)
  THEN [raised |-> ErrTotpNoProfile, rows |-> rows]
  ELSE [raised |-> NoError, rows |-> SetTotpFlag(rows, uid, p_is_enabled)]

\* a row of public.profiles as it is before any of the modelled calls
InitialRow(id, name, totp) ==
  [id |-> id, username |-> name, full_name |-> <<102, 48 + id>>,
   role |-> IF id = 1 THEN "admin" ELSE "user", status |-> "approved",
   is_totp_enabled |-> totp]

\* no two rows have usernames that are equal ignoring letter case
CaseInsensitiveUnique(rows) ==
  \A i, j \in DOMAIN rows :
    (i # j /\ ~IsNull(rows[i].username) /\ ~IsNull(rows[j].username))
      => lower(rows[i].username) # lower(rows[j].username)

NoCall ==
  [fn |-> "none", from |-> "none", uid |-> NullUid, arg |-> NullText,
   flag |-> FALSE, raised |-> NoError, ret |-> NullRecord, before |-> << >>]

(* ------------------------- the client: state -------------------------- *)

\* the signed-in user whose ProfilePage is open
Me == 1

FactorIds == 1..MaxFactors

\* factorId === null, totpFactor === undefined
NoFactor == 0

Slots == 1..MaxInFlight

\* useState initial values of TotpSetupDialog; isOpen is ProfilePage's
\* isTotpSetupDialogOpen.  code6 is verificationCode.length === 6, error is
\* error !== null, hasCodes is recoveryCodes.length > 0; qrCodeSvg and
\* secretKey are set and cleared together with factorId.
InitialDialog ==
  [isOpen |-> FALSE, step |-> "enroll", factorId |-> NoFactor,
   code6 |-> FALSE, error |-> FALSE, isLoading |-> FALSE, hasCodes |-> FALSE]

\* resetDialogState
resetDialogState(d) ==
  [d EXCEPT !.isLoading = FALSE, !.error = FALSE, !.factorId = NoFactor,
            !.code6 = FALSE, !.step = "enroll", !.hasCodes = FALSE]

\* the body of the useEffect on [isOpen, step]: the dialog state it leaves
\* and the number of enrollTotp runs it starts
Effect(d) ==
  IF d.isOpen /\ d.step = "enroll"
  THEN [dlg |-> [d EXCEPT !.isLoading = TRUE, !.error = FALSE], enroll |-> 1]
  ELSE IF ~d.isOpen /\ d.step # "recoveryCodes" /\ d.step # "completed"
       THEN [dlg |-> resetDialogState(d), enroll |-> 0]
       ELSE [dlg |-> d, enroll |-> 0]

\* a render after a handler took the dialog from old to new: the effect runs
\* when one of its dependencies changed
AfterRender(old, new) ==
  IF new.isOpen # old.isOpen \/ new.step # old.step
  THEN Effect(new)
  ELSE [dlg |-> new, enroll |-> 0]

\* renderContent: the view the dialog body shows
renderContent(d) ==
  IF d.isLoading /\ d.step = "enroll" THEN "spinner"
  ELSE IF d.step = "verify" /\ d.factorId # NoFactor THEN "verifyForm"
  ELSE IF d.step = "recoveryCodes" /\ d.hasCodes THEN "recoveryCodes"
  ELSE IF d.error THEN "error"
  ELSE "nothing"

\* a handleVerifyCode run: where it waits, and its locals factorId (captured
\* from state), challengeData (obtained or not) and verifyData
IdleRun ==
  [pc |-> "idle", factorId |-> NoFactor, challengeId |-> FALSE,
   verifyData |-> "null"]

\* isDisablingTotp, totpCodeForDisable.trim() !== '' and the handleDisableTotp
\* run: where it waits, its local totpFactor, the factor its
\* challengeAndVerify succeeded for, and whether it has called mfa.unenroll
\* and rpc('set_totp_enabled')
InitialDisable ==
  [isDisablingTotp |-> FALSE, code |-> FALSE, pc |-> "idle",
   totpFactor |-> NoFactor, verified |-> NoFactor,
   unenrolled |-> FALSE, rpcCalled |-> FALSE]

InitUi ==
  /\ factors = [f \in FactorIds |-> "none"]
  /\ ctxTotp = FALSE
  /\ dlg = InitialDialog
  /\ enrolling = 0
  /\ verif = [i \in Slots |-> IdleRun]
  /\ dis = InitialDisable
  /\ lastEvent = "none"

\* tables in which the rows' usernames are unique ignoring case; flags
\* fixes is_totp_enabled per id
InitDb(flags) ==
  /\ \E present \in SUBSET UserIds :
       \E names \in [present -> InitNames] :
         profiles = [id \in present |-> InitialRow(id, names[id], flags[id])]
  /\ CaseInsensitiveUnique(profiles)
  /\ lastCall = NoCall
  /\ InitUi

\* a caller invokes rpc('update_username', {new_username})
UpdateUsername(uid, new_username) ==
  LET r == update_username(profiles, uid, new_username)
  IN  /\ profiles' = r.rows
      /\ lastCall' = [fn |-> "update_username", from |-> "rpc", uid |-> uid,
                      arg |-> new_username, flag |-> FALSE,
                      raised |-> r.raised, ret |-> r.ret,
                      before |-> profiles]
      /\ UNCHANGED <<uiVars, callVars, adminVars, edgeVars>>

\* a caller invokes rpc('set_totp_enabled', {p_is_enabled})
SetTotpEnabled(uid, p_is_enabled) ==
  LET r == set_totp_enabled(profiles, uid, p_is_enabled)
  IN  /\ profiles' = r.rows
      /\ lastCall' = [fn |-> "set_totp_enabled", from |-> "rpc", uid |-> uid,
                      arg |-> NullText, flag |-> p_is_enabled,
                      raised |-> r.raised, ret |-> NullRecord,
                      before |-> profiles]
      /\ UNCHANGED <<uiVars, callVars, adminVars, edgeVars>>

(* ------------------------- UsernameEditForm --------------------------- *)

\* a JavaScript string: the UTF-16 code units of the text t
RECURSIVE Utf16(_)
Utf16(t) ==
  IF t = <<>>
  THEN <<>>
  ELSE LET c == Head(t)
           units == IF c > 65535
                    THEN <<55296 + ((c - 65536) \div 1024),
                           56320 + ((c - 65536) % 1024)>>
                    ELSE <<c>>
       IN  units \o Utf16(Tail(t))

\* /^[a-zA-Z0-9_.]+$/.test(s), s a sequence of code units
usernameRegexTest(s) ==
  /\ Len(s) >= 1
  /\ \A i \in 1..Len(s) :
       \/ s[i] \in 97..122
       \/ s[i] \in 65..90
       \/ s[i] \in 48..57
       \/ s[i] \in {95, 46}

\* variant: the schema with min(2)
usernameFormSchemaMin2(t) ==
  LET s == Utf16(t)
  IN  Len(s) >= 2 /\ Len(s) <= 30 /\ usernameRegexTest(s)

\* usernameFormSchema.username: z.string().min(3).max(30).regex(...)
usernameFormSchema(t) ==
  LET s == Utf16(t)
  IN  Len(s) >= 3 /\ Len(s) <= 30 /\ usernameRegexTest(s)

\* the form is submitted by the signed-in user uid with the text t typed in:
\* the resolver lets onSubmit run only on a value the schema accepts, and
\* onSubmit calls the RPC unless the username is unchanged
UsernameEditFormSubmit(uid, t) ==
  /\ uid \in DOMAIN profiles
  /\ ~IsNull(t)
  /\ IF usernameFormSchema(t) /\ t # profiles[uid].username
     THEN LET r == update_username(profiles, uid, t)
          IN  /\ profiles' = r.rows
              /\ lastCall' = [fn |-> "update_username",
                              from |-> "UsernameEditForm", uid |-> uid,
                              arg |-> t, flag |-> FALSE,
                              raised |-> r.raised, ret |-> r.ret,
                              before |-> profiles]
     ELSE UNCHANGED <<profiles, lastCall>>
  /\ UNCHANGED <<uiVars, callVars, adminVars, edgeVars>>

(* ----------------------- the client: operations ----------------------- *)

\* supabase.rpc('set_totp_enabled', {p_is_enabled}) issued by the client as
\* Me: the request either reaches the database and runs the function, or
\* fails on the way and changes nothing
ClientRpc(reached, from, p_is_enabled) ==
  IF reached
  THEN LET r == set_totp_enabled(profiles, Me, p_is_enabled)
       IN  /\ profiles' = r.rows
           /\ lastCall' = [fn |-> "set_totp_enabled", from |-> from,
                           uid |-> Me, arg |-> NullText,
                           flag |-> p_is_enabled, raised |-> r.raised,
                           ret |-> NullRecord, before |-> profiles]
  ELSE UNCHANGED <<profiles, lastCall>>

\* refreshCurrentUserProfile: the client's profile is replaced by the row
\* read from the database, or stays as it was when the read fails
Refreshed(fetched) ==
  IF fetched /\ Me \in DOMAIN profiles
  THEN profiles[Me].is_totp_enabled
  ELSE ctxTotp

\* the least element of a non-empty set of numbers
Least(S) == CHOOSE x \in S : \A y \in S : x <= y

\* factor ids the provider can hand out: not in use and not held by any
\* handler or component state (a real id is a fresh UUID)
FreshFactors ==
  {f \in FactorIds :
     /\ factors[f] = "none"
     /\ dlg.factorId # f
     /\ \A i \in Slots : verif[i].factorId # f
     /\ dis.totpFactor # f}

\* the "Activer l'A2F (TOTP)" button, shown while the client's profile has
\* is_totp_enabled false: setIsTotpSetupDialogOpen(true), then the effect
OpenSetupDialog ==
  /\ ~ctxTotp
  /\ ~dlg.isOpen
  /\ LET r == AfterRender(dlg, [dlg EXCEPT !.isOpen = TRUE])
     IN  /\ enrolling + r.enroll <= MaxInFlight
         /\ dlg' = r.dlg
         /\ enrolling' = enrolling + r.enroll
  /\ lastEvent' = "other"
  /\ UNCHANGED <<callVars, adminVars, edgeVars, profiles, lastCall, factors, ctxTotp, verif, dis>>

\* Dialog onOpenChange(false) (Escape, overlay, Annuler, Fermer): reset
\* unless completed, then the parent's onOpenChange, then the effect
CloseSetupDialog ==
  /\ dlg.isOpen
  /\ LET kept == IF dlg.step # "completed" THEN resetDialogState(dlg) ELSE dlg
         r == AfterRender(dlg, [kept EXCEPT !.isOpen = FALSE])
     IN  dlg' = r.dlg
  /\ lastEvent' = "other"
  /\ UNCHANGED <<callVars, adminVars, edgeVars, profiles, lastCall, factors, ctxTotp, enrolling, verif, dis>>

\* enrollTotp after await mfa.enroll: the provider created an unverified
\* factor and the dialog moves to 'verify', or the call failed
EnrollReturns(ok) ==
  /\ enrolling > 0
  /\ IF ok
     THEN /\ FreshFactors # {}
          /\ LET f == Least(FreshFactors)
                 r == AfterRender(dlg, [dlg EXCEPT !.factorId = f,
                                                   !.step = "verify",
                                                   !.isLoading = FALSE])
             IN  /\ factors' = [factors EXCEPT ![f] = "unverified"]
                 /\ dlg' = r.dlg
                 /\ enrolling' = enrolling - 1 + r.enroll
          /\ lastEvent' = "other"
     ELSE /\ dlg' = [dlg EXCEPT !.error = TRUE, !.isLoading = FALSE]
          /\ enrolling' = enrolling - 1
          /\ lastEvent' = "other"
          /\ UNCHANGED factors
  /\ UNCHANGED <<callVars, adminVars, edgeVars, profiles, lastCall, ctxTotp, verif, dis>>

\* the verification code input, rendered with the QR code in step 'verify'
TypeVerificationCode(six) ==
  /\ dlg.isOpen
  /\ renderContent(dlg) = "verifyForm"
  /\ dlg.code6 # six
  /\ dlg' = [dlg EXCEPT !.code6 = six]
  /\ lastEvent' = "other"
  /\ UNCHANGED <<callVars, adminVars, edgeVars, profiles, lastCall, factors, ctxTotp, enrolling, verif, dis>>

\* the catch and finally blocks of handleVerifyCode
VerifyRunThrows(i) ==
  /\ dlg' = [dlg EXCEPT !.error = TRUE, !.isLoading = FALSE]
  /\ verif' = [verif EXCEPT ![i] = IdleRun]
  /\ lastEvent' = "verifyFailed"

\* handleVerifyCode up to its first await; the "Verifier et Activer" button
\* is in the footer of step 'verify', disabled while loading or without a
\* 6-character code
HandleVerifyCode ==
  /\ dlg.isOpen
  /\ dlg.step = "verify"
  /\ ~dlg.isLoading
  /\ dlg.code6
  /\ \E i \in Slots : verif[i].pc = "idle"
  /\ LET i == Least({j \in Slots : verif[j].pc = "idle"})
     IN  IF dlg.factorId = NoFactor \/ ~dlg.code6
         THEN /\ dlg' = [dlg EXCEPT !.error = TRUE]
              /\ UNCHANGED verif
         ELSE /\ dlg' = [dlg EXCEPT !.isLoading = TRUE, !.error = FALSE]
              /\ verif' = [verif EXCEPT ![i] =
                             [pc |-> "challenge", factorId |-> dlg.factorId,
                              challengeId |-> FALSE, verifyData |-> "null"]]
  /\ lastEvent' = "other"
  /\ UNCHANGED <<callVars, adminVars, edgeVars, profiles, lastCall, factors, ctxTotp, enrolling, dis>>

\* handleVerifyCode after await mfa.challenge
ChallengeReturns(i, ok) ==
  /\ verif[i].pc = "challenge"
  /\ ok => factors[verif[i].factorId] # "none"
  /\ IF ok
     THEN /\ verif' = [verif EXCEPT ![i].pc = "verify", ![i].challengeId = TRUE]
          /\ lastEvent' = "other"
          /\ UNCHANGED dlg
     ELSE VerifyRunThrows(i)
  /\ UNCHANGED <<callVars, adminVars, edgeVars, profiles, lastCall, factors, ctxTotp, enrolling, dis>>

\* handleVerifyCode after await mfa.verify: on success the provider has
\* marked the factor verified and may have returned recovery codes
VerifyReturns(i, ok, codes) ==
  /\ verif[i].pc = "verify"
  /\ ok => factors[verif[i].factorId] # "none"
  /\ IF ok
     THEN /\ factors' = [factors EXCEPT ![verif[i].factorId] = "verified"]
          /\ verif' = [verif EXCEPT ![i].pc = "rpc",
                         ![i].verifyData = IF codes THEN "codes" ELSE "nocodes"]
          /\ lastEvent' = "other"
          /\ UNCHANGED dlg
     ELSE /\ VerifyRunThrows(i)
          /\ UNCHANGED factors
  /\ UNCHANGED <<callVars, adminVars, edgeVars, profiles, lastCall, ctxTotp, enrolling, dis>>

\* handleVerifyCode after await rpc('set_totp_enabled', true): an rpcError
\* is logged and toasted, and the run goes on
VerifyRpcReturns(i, reached) ==
  /\ verif[i].pc = "rpc"
  /\ ClientRpc(reached, "handleVerifyCode", TRUE)
  /\ verif' = [verif EXCEPT ![i].pc = "refresh"]
  /\ lastEvent' = "other"
  /\ UNCHANGED <<callVars, adminVars, edgeVars, factors, ctxTotp, dlg, enrolling, dis>>

\* handleVerifyCode after await refreshCurrentUserProfile, to its end
VerifyRefreshReturns(i, fetched) ==
  /\ verif[i].pc = "refresh"
  /\ ctxTotp' = Refreshed(fetched)
  /\ LET new == IF verif[i].verifyData = "codes"
                THEN [dlg EXCEPT !.hasCodes = TRUE, !.step = "recoveryCodes",
                                 !.isLoading = FALSE]
                ELSE [dlg EXCEPT !.step = "completed", !.isOpen = FALSE,
                                 !.isLoading = FALSE]
         r == AfterRender(dlg, new)
     IN  /\ dlg' = r.dlg
         /\ enrolling' = enrolling + r.enroll
  /\ verif' = [verif EXCEPT ![i] = IdleRun]
  /\ lastEvent' = "other"
  /\ UNCHANGED <<callVars, adminVars, edgeVars, profiles, lastCall, factors, dis>>

\* handleRecoveryCodesSaved, the button in the footer of step 'recoveryCodes'
HandleRecoveryCodesSaved ==
  /\ dlg.isOpen
  /\ dlg.step = "recoveryCodes"
  /\ LET r == AfterRender(dlg, [dlg EXCEPT !.step = "completed",
                                           !.isOpen = FALSE])
     IN  /\ dlg' = r.dlg
         /\ enrolling' = enrolling + r.enroll
  /\ lastEvent' = "other"
  /\ UNCHANGED <<callVars, adminVars, edgeVars, profiles, lastCall, factors, ctxTotp, verif, dis>>

\* the code input of the disable confirmation, rendered while the client's
\* profile has is_totp_enabled true
TypeDisableCode(nonEmpty) ==
  /\ ctxTotp
  /\ dis.code # nonEmpty
  /\ dis' = [dis EXCEPT !.code = nonEmpty]
  /\ lastEvent' = "other"
  /\ UNCHANGED <<callVars, adminVars, edgeVars, profiles, lastCall, factors, ctxTotp, dlg, enrolling, verif>>

\* variant: the run ends without clearing the entered code
DisableRunEndsKeepsCode(d) == [InitialDisable EXCEPT !.code = d.code]

\* the finally block of handleDisableTotp, and its two early returns
DisableRunEnds(d) == InitialDisable

\* variant: the challengeError test is dropped and the run always goes on
DisableAfterVerifyAlways(d, challengeError) ==
  [d EXCEPT !.pc = "unenroll",
            !.verified = IF challengeError THEN NoFactor ELSE d.totpFactor,
            !.unenrolled = TRUE]

\* handleDisableTotp after await mfa.challengeAndVerify: return on an
\* error, otherwise call mfa.unenroll
DisableAfterVerify(d, challengeError) ==
  IF challengeError
  THEN DisableRunEnds(d)
  ELSE [d EXCEPT !.pc = "unenroll", !.verified = d.totpFactor,
                 !.unenrolled = TRUE]

\* handleDisableTotp up to its first await; "Oui, desactiver" is disabled
\* while disabling or without a code
HandleDisableTotp ==
  /\ ctxTotp
  /\ ~dis.isDisablingTotp
  /\ dis.code
  /\ IF ~dis.code
     THEN UNCHANGED dis
     ELSE dis' = [isDisablingTotp |-> TRUE, code |-> dis.code,
                  pc |-> "listFactors", totpFactor |-> NoFactor,
                  verified |-> NoFactor, unenrolled |-> FALSE,
                  rpcCalled |-> FALSE]
  /\ lastEvent' = "other"
  /\ UNCHANGED <<callVars, adminVars, edgeVars, profiles, lastCall, factors, ctxTotp, dlg, enrolling, verif>>

\* handleDisableTotp after await mfa.listFactors: a verified factor is
\* picked, or none exists and the profile flag is synced to false
ListFactorsReturns(ok) ==
  /\ dis.pc = "listFactors"
  /\ IF ~ok
     THEN /\ dis' = DisableRunEnds(dis)
          /\ lastEvent' = "other"
     ELSE LET verifiedFactors == {f \in FactorIds : factors[f] = "verified"}
          IN  IF verifiedFactors = {}
              THEN /\ dis' = [dis EXCEPT !.pc = "syncRpc", !.rpcCalled = TRUE]
                   /\ lastEvent' = "other"
              ELSE /\ dis' = [dis EXCEPT !.pc = "challengeAndVerify",
                                !.totpFactor = Least(verifiedFactors)]
                   /\ lastEvent' = "other"
  /\ UNCHANGED <<callVars, adminVars, edgeVars, profiles, lastCall, factors, ctxTotp, dlg, enrolling, verif>>

\* no factor found: after await rpc('set_totp_enabled', false)
SyncRpcReturns(reached) ==
  /\ dis.pc = "syncRpc"
  /\ ClientRpc(reached, "handleDisableTotp", FALSE)
  /\ dis' = [dis EXCEPT !.pc = "syncRefresh"]
  /\ lastEvent' = "other"
  /\ UNCHANGED <<callVars, adminVars, edgeVars, factors, ctxTotp, dlg, enrolling, verif>>

\* no factor found: after await refreshCurrentUserProfile, to the return
SyncRefreshReturns(fetched) ==
  /\ dis.pc = "syncRefresh"
  /\ ctxTotp' = Refreshed(fetched)
  /\ dis' = DisableRunEnds(dis)
  /\ lastEvent' = "noFactorSynced"
  /\ UNCHANGED <<callVars, adminVars, edgeVars, profiles, lastCall, factors, dlg, enrolling, verif>>

\* handleDisableTotp after await mfa.challengeAndVerify
ChallengeAndVerifyReturns(ok) ==
  /\ dis.pc = "challengeAndVerify"
  /\ ok => factors[dis.totpFactor] = "verified"
  /\ dis' = DisableAfterVerify(dis, ~ok)
  /\ lastEvent' = IF ok THEN "other" ELSE "disableVerifyFailed"
  /\ UNCHANGED <<callVars, adminVars, edgeVars, profiles, lastCall, factors, ctxTotp, dlg, enrolling, verif>>

\* handleDisableTotp after await mfa.unenroll: the provider removed the
\* factor, or the error is thrown to the catch block
UnenrollReturns(ok) ==
  /\ dis.pc = "unenroll"
  /\ ok => factors[dis.totpFactor] # "none"
  /\ IF ok
     THEN /\ factors' = [factors EXCEPT ![dis.totpFactor] = "none"]
          /\ dis' = [dis EXCEPT !.pc = "rpc", !.rpcCalled = TRUE]
          /\ lastEvent' = "other"
     ELSE /\ dis' = DisableRunEnds(dis)
          /\ lastEvent' = "other"
          /\ UNCHANGED factors
  /\ UNCHANGED <<callVars, adminVars, edgeVars, profiles, lastCall, ctxTotp, dlg, enrolling, verif>>

\* handleDisableTotp after await rpc('set_totp_enabled', false)
DisableRpcReturns(reached) ==
  /\ dis.pc = "rpc"
  /\ ClientRpc(reached, "handleDisableTotp", FALSE)
  /\ dis' = [dis EXCEPT !.pc = "refresh"]
  /\ lastEvent' = "other"
  /\ UNCHANGED <<callVars, adminVars, edgeVars, factors, ctxTotp, dlg, enrolling, verif>>

\* handleDisableTotp after await refreshCurrentUserProfile, to its end
DisableRefreshReturns(fetched) ==
  /\ dis.pc = "refresh"
  /\ ctxTotp' = Refreshed(fetched)
  /\ dis' = DisableRunEnds(dis)
  /\ lastEvent' = "other"
  /\ UNCHANGED <<callVars, adminVars, edgeVars, profiles, lastCall, factors, dlg, enrolling, verif>>

(* ------------------------- UserManagementPage ------------------------- *)

\* fetchUsers runs that may wait for the RPC at the same time
MaxFetches == 2

\* UserProfile['role'] of a stored profile
Roles == {"user", "moderator", "admin", "SUPER_ADMIN"}

\* UserProfile['status'] of a stored profile
Statuses == {"pending_approval", "approved", "rejected"}

\* contextProfile === null
NoRole == "null"

\* error === null
NoPageError == "null"

ErrAccessDenied == "Acces refuse. Vous n'avez pas les permissions necessaires pour voir cette page."

ErrSignIn == "Veuillez vous connecter pour acceder a cette page."

ErrFetchUsers == "Erreur lors de la recuperation de la liste des utilisateurs."

\* useUser() before the auth state is known; role is contextProfile?.role,
\* NoRole while contextProfile is null
InitialContext == [isAuthLoading |-> TRUE, user |-> NullUid, role |-> NoRole]

\* useState initial values of UserManagementPage
InitialPage ==
  [users |-> << >>, isLoading |-> TRUE, error |-> NoPageError,
   currentAdminUserId |-> NullUid]

IdleMutation == [kind |-> "idle", userId |-> NullUid, value |-> "none"]

\* a fetchUsers run at its await: the RPC has not read the table yet
AwaitingRpc == [served |-> FALSE, data |-> << >>]

\* the run started last is in flight, or no run is
NoFetch == [state |-> "none", data |-> << >>]

InitAdminIdle ==
  /\ ctx = InitialContext
  /\ page = InitialPage
  /\ run = IdleMutation
  /\ fetching = << >>
  /\ latestFetch = NoFetch

\* contextProfile.role === 'admin' || contextProfile.role === 'SUPER_ADMIN'
IsAdminRole(role) == role = "admin" \/ role = "SUPER_ADMIN"

\* useAuth over a context whose profile has the role profileRole (NoRole
\* for no profile): the role flags it returns
useAuth(profileRole) ==
  LET role == profileRole
      isUser == role = "USER"
      isModerator == role = "MODERATOR"
      isAdmin == role = "ADMIN"
      isSuperAdmin == role = "SUPER_ADMIN"
  IN  [role |-> role, isUser |-> isUser, isModerator |-> isModerator,
       isAdmin |-> isAdmin, isSuperAdmin |-> isSuperAdmin,
       canModerate |-> isModerator \/ isAdmin \/ isSuperAdmin,
       canAdminister |-> isAdmin \/ isSuperAdmin]

\* fetchUsers up to its await
fetchUsers(p) == [p EXCEPT !.isLoading = TRUE, !.error = NoPageError]

\* the effect on [isAuthLoading, contextUser, contextProfile], run with the
\* context c on the state p: the new state, and whether fetchUsers is called
useEffect(c, p) ==
  IF ~c.isAuthLoading /\ c.user # NullUid /\ c.role # NoRole
  THEN LET p1 == [p EXCEPT !.currentAdminUserId = c.user]
       IN  IF IsAdminRole(c.role)
           THEN [page |-> fetchUsers(p1), fetch |-> TRUE]
           ELSE [page |-> [p1 EXCEPT !.error = ErrAccessDenied,
                                     !.isLoading = FALSE, !.users = << >>],
                 fetch |-> FALSE]
  ELSE IF ~c.isAuthLoading /\ c.user = NullUid
  THEN [page |-> [p EXCEPT !.error = ErrSignIn, !.isLoading = FALSE,
                           !.users = << >>],
        fetch |-> FALSE]
  ELSE IF c.isAuthLoading
  THEN [page |-> [p EXCEPT !.isLoading = TRUE], fetch |-> FALSE]
  ELSE [page |-> p, fetch |-> FALSE]

\* the role of Me's profile row as the context provider reads it
StoredRole ==
  IF Me \in DOMAIN profiles THEN profiles[Me].role ELSE NoRole

\* the values useUser() can take next: the auth state gets known (nobody
\* signed in, or Me with the profile still missing or loaded), the profile
\* is loaded or read again, Me signs out
NextContexts ==
  IF ctx.isAuthLoading
  THEN {[isAuthLoading |-> FALSE, user |-> NullUid, role |-> NoRole],
        [isAuthLoading |-> FALSE, user |-> Me, role |-> NoRole],
        [isAuthLoading |-> FALSE, user |-> Me, role |-> StoredRole]}
  ELSE IF ctx.user = NullUid
  THEN {}
  ELSE {[isAuthLoading |-> FALSE, user |-> Me, role |-> StoredRole],
        [isAuthLoading |-> FALSE, user |-> NullUid, role |-> NoRole]}

\* fetchUsers at its await: the run joins those in flight, in the order in
\* which they were started, and is the one started last
CallRpc ==
  /\ fetching' = Append(fetching, AwaitingRpc)
  /\ latestFetch' = NoFetch

\* the context changes to c and the effect runs
ContextChanges(c) ==
  /\ c \in NextContexts
  /\ LET e == useEffect(c, page)
     IN  /\ e.fetch => Len(fetching) < MaxFetches
         /\ ctx' = c
         /\ page' = e.page
         /\ IF e.fetch THEN CallRpc ELSE UNCHANGED <<fetching, latestFetch>>
  /\ UNCHANGED <<profiles, lastCall, uiVars, callVars, run, edgeVars>>

\* what get_all_user_details returns: every profile with its role and status
get_all_user_details(rows) ==
  [id \in DOMAIN rows |-> [role |-> rows[id].role, status |-> rows[id].status]]

\* the database runs get_all_user_details for the k-th run in flight
FetchUsersServed(k) ==
  /\ k \in 1..Len(fetching)
  /\ ~fetching[k].served
  /\ fetching' = [fetching EXCEPT
                    ![k] = [served |-> TRUE,
                            data |-> get_all_user_details(profiles)]]
  /\ UNCHANGED <<profiles, lastCall, uiVars, callVars, ctx, page, run,
                 latestFetch, edgeVars>>

\* the runs in flight without the k-th
Without(s, k) ==
  [i \in 1..(Len(s) - 1) |-> IF i < k THEN s[i] ELSE s[i + 1]]

\* fetchUsers after its await: setUsers(data) or setError, then
\* setIsLoading(false)
FetchUsersApplies(p, ok, data) ==
  IF ok
  THEN [p EXCEPT !.users = data, !.isLoading = FALSE]
  ELSE [p EXCEPT !.error = ErrFetchUsers, !.isLoading = FALSE]

\* the k-th run in flight gets its answer and runs to its end
EndFetch(k, ok, data) ==
  /\ fetching' = Without(fetching, k)
  /\ page' = FetchUsersApplies(page, ok, data)
  /\ latestFetch' =
       IF Len(fetching) = 1 THEN NoFetch
       ELSE IF k = Len(fetching) /\ latestFetch = NoFetch
       THEN [state |-> IF ok THEN "data" ELSE "error",
             data |-> IF ok THEN data ELSE << >>]
       ELSE latestFetch
  /\ UNCHANGED <<profiles, lastCall, uiVars, callVars, ctx, run, edgeVars>>

\* fetchUsers after await rpc('get_all_user_details'), to its end, for a
\* call the database has run or that failed: the answers arrive in any
\* order
FetchUsersReturns(k, ok) ==
  /\ k \in 1..Len(fetching)
  /\ ok => fetching[k].served
  /\ EndFetch(k, ok, fetching[k].data)

\* the same, with the call run by the database at the moment its answer
\* arrives
FetchUsersAnswered(k, ok) ==
  /\ k \in 1..Len(fetching)
  /\ ~fetching[k].served
  /\ EndFetch(k, ok, get_all_user_details(profiles))

\* the page is past its spinner and its error paragraph: the table with a
\* row menu for every listed user is rendered
TableRendered ==
  /\ ~(ctx.isAuthLoading
        \/ (page.isLoading /\ DOMAIN page.users = {}
              /\ page.error = NoPageError))
  /\ page.error = NoPageError

\* variant: the Approuver item rendered in every row
ApproveOfferedAnyStatus(userId) == TRUE

\* the Approuver item is rendered for the row of userId
ApproveOffered(userId) == page.users[userId].status = "pending_approval"

\* variant: the role items without their test for the administrator's own row
RoleItemDisabledNoSelfTest(userId, newRole) ==
  \/ newRole = "moderator" /\ page.users[userId].role = "moderator"
  \/ newRole = "admin" /\ IsAdminRole(page.users[userId].role)
  \/ newRole = "user" /\ page.users[userId].role = "user"

\* disabled of Passer Moderateur, Passer Admin and Passer Utilisateur in
\* the row of userId
RoleItemDisabled(userId, newRole) ==
  LET self == userId = page.currentAdminUserId /\ IsAdminRole(ctx.role)
  IN  \/ newRole = "moderator"
           /\ (self \/ page.users[userId].role = "moderator")
      \/ newRole = "admin" /\ IsAdminRole(page.users[userId].role)
      \/ newRole = "user" /\ (self \/ page.users[userId].role = "user")

\* disabled of Supprimer in the row of userId
DeleteItemDisabled(userId) == userId = page.currentAdminUserId

\* handleChangeRole up to its try block: "toast" for the refusal, "update"
\* when the profiles update is sent
handleChangeRole(userId, newRole) ==
  IF userId = page.currentAdminUserId /\ ctx.role = "admin"
       /\ newRole # "admin"
  THEN "toast"
  ELSE "update"

\* variant: handleDeleteUser without its test for the administrator's own id
handleDeleteUserNoSelfTest(userId, confirmed) ==
  IF ~confirmed THEN "cancelled" ELSE "invoke"

\* handleDeleteUser up to its try block: "toast" for the refusal,
\* "cancelled" when window.confirm returned false, "invoke" when the
\* delete-user-admin function is called
handleDeleteUser(userId, confirmed) ==
  IF page.currentAdminUserId = userId THEN "toast"
  ELSE IF ~confirmed THEN "cancelled"
  ELSE "invoke"

\* a handler waits for the backend; the row actions are followed one at a
\* time, the next one is taken up when this one got its answer
StartMutation(kind, userId, value) ==
  /\ run = IdleMutation
  /\ run' = [kind |-> kind, userId |-> userId, value |-> value]

\* a handler got its answer: on success it calls fetchUsers
EndMutation(ok) ==
  /\ ok => Len(fetching) < MaxFetches
  /\ run' = IdleMutation
  /\ page' = IF ok THEN fetchUsers(page) ELSE page
  /\ IF ok THEN CallRpc ELSE UNCHANGED <<fetching, latestFetch>>

\* Approuver is chosen in the row of userId: handleApproveUser to its await
ClickApprove(userId) ==
  /\ TableRendered
  /\ userId \in DOMAIN page.users
  /\ ApproveOffered(userId)
  /\ StartMutation("approve", userId, "approved")
  /\ UNCHANGED <<profiles, lastCall, uiVars, callVars, ctx, page, fetching, latestFetch, edgeVars>>

\* profiles.update({status}).eq('id', userId)
SetStatus(rows, userId, status) ==
  [id \in DOMAIN rows |->
     IF id = userId THEN [rows[id] EXCEPT !.status = status] ELSE rows[id]]

\* handleApproveUser after its await
ApproveReturns(ok) ==
  /\ run.kind = "approve"
  /\ EndMutation(ok)
  /\ profiles' = IF ok
                 THEN SetStatus(profiles, run.userId, "approved")
                 ELSE profiles
  /\ UNCHANGED <<lastCall, uiVars, callVars, ctx, edgeVars>>

\* a role item is chosen in the row of userId: handleChangeRole to its await
ClickChangeRole(userId, newRole) ==
  /\ TableRendered
  /\ userId \in DOMAIN page.users
  /\ ~RoleItemDisabled(userId, newRole)
  /\ IF handleChangeRole(userId, newRole) = "update"
     THEN StartMutation("role", userId, newRole)
     ELSE UNCHANGED run
  /\ UNCHANGED <<profiles, lastCall, uiVars, callVars, ctx, page, fetching, latestFetch, edgeVars>>

\* profiles.update({role}).eq('id', userId)
SetRole(rows, userId, role) ==
  [id \in DOMAIN rows |->
     IF id = userId THEN [rows[id] EXCEPT !.role = role] ELSE rows[id]]

\* handleChangeRole after its await
ChangeRoleReturns(ok) ==
  /\ run.kind = "role"
  /\ EndMutation(ok)
  /\ profiles' = IF ok
                 THEN SetRole(profiles, run.userId, run.value)
                 ELSE profiles
  /\ UNCHANGED <<lastCall, uiVars, callVars, ctx, edgeVars>>

\* Supprimer is chosen in the row of userId and window.confirm is answered:
\* handleDeleteUser to its await
ClickDelete(userId, confirmed) ==
  /\ TableRendered
  /\ userId \in DOMAIN page.users
  /\ ~DeleteItemDisabled(userId)
  /\ IF handleDeleteUser(userId, confirmed) = "invoke"
     THEN StartMutation("delete", userId, "none")
     ELSE UNCHANGED run
  /\ UNCHANGED <<profiles, lastCall, uiVars, callVars, ctx, page, fetching, latestFetch, edgeVars>>

\* handleDeleteUser after its await: a call the function answered without
\* error removed the user, and the profile row with it
DeleteReturns(ok) ==
  /\ run.kind = "delete"
  /\ EndMutation(ok)
  /\ profiles' = IF ok
                 THEN [id \in DOMAIN profiles \ {run.userId} |->
                         profiles[id]]
                 ELSE profiles
  /\ UNCHANGED <<lastCall, uiVars, callVars, ctx, edgeVars>>

(* ----------------------- the create-user function --------------------- *)

\* a property the payload does not have
Undefined == NullText

\* !v for a text property: undefined and '' are falsy
IsFalsyText(v) == v = Undefined \/ v = << >>

\* !role: undefined, null and '' are falsy
IsFalsyRole(role) == role = NoRole \/ role = ""

\* the payload read from a body without properties
NoProperties(json) ==
  [json |-> json, email |-> Undefined, password |-> Undefined,
   full_name |-> Undefined, username |-> Undefined, role |-> NoRole]

\* a body req.json() cannot parse
Unparsable == NoProperties("unparsable")

\* the body null: valid JSON that has no properties
JsonNull == NoProperties("null")

\* objects a caller may send; the role type of CreateUserPayload is not
\* enforced at run time
Payloads ==
  [json : {"object"},
   email : {Undefined, << >>, <<97, 64>>, <<98, 64>>, <<99, 64>>},
   password : {Undefined, Rep(112, 6)},
   full_name : {<< >>, <<70>>},
   username : {Undefined, << >>, <<97, 97, 97>>, <<65, 97, 65>>},
   role : {NoRole, "", "moderator"}]

Bodies == {Unparsable, JsonNull} \cup Payloads

\* who sends a request: a visitor who is not signed in, or a signed-in user
\* whose profile has this role.  The handler reads req.method and the body
\* and nothing else of the request.
RequestCallers == {"anonymous", "user", "admin", "SUPER_ADMIN"}

\* the PostgREST answers to the profile update that the handler tells
\* apart: no error, a unique violation by code or only by message, another
\* error with a code (with or without a status of its own), one without
NoProfileError == [code |-> "", unique |-> FALSE, status |-> 0]

UniqueViolation == [code |-> "23505", unique |-> TRUE, status |-> 0]

\* single() when the update returned no row
NoRowError == [code |-> "PGRST116", unique |-> FALSE, status |-> 0]

OtherProfileErrors ==
  { [code |-> "", unique |-> TRUE, status |-> 0],
    [code |-> "42501", unique |-> FALSE, status |-> 0],
    [code |-> "42501", unique |-> FALSE, status |-> 403],
    [code |-> "", unique |-> FALSE, status |-> 0] }

\* the answers of auth.admin.createUser that the handler tells apart
AuthOutcomes == {"user", "emailTaken", "weakPassword", "error", "noUser"}

\* statusCode of the authError branch
AuthErrorStatus(outcome, status) ==
  IF outcome = "emailTaken" THEN 409
  ELSE IF outcome = "weakPassword" THEN 400
  ELSE IF status # 0 THEN status
  ELSE 400

\* variant: a unique violation is answered like any other error
ProfileErrorStatusNoConflict(err) ==
  IF err.code # "" /\ err.status # 0 THEN err.status ELSE 500

\* statusCode of the profileError branch
ProfileErrorStatus(err) ==
  IF err.code = "23505" THEN 409
  ELSE IF err.unique THEN 409
  ELSE IF err.code # "" THEN (IF err.status # 0 THEN err.status ELSE 500)
  ELSE 500

\* the row a new account gets in profiles before the function updates it
DefaultRow(id) ==
  [id |-> id, username |-> NullText, full_name |-> NullText,
   role |-> "user", status |-> "pending_approval", is_totp_enabled |-> FALSE]

\* variant: the update without status: 'approved'
SetProfileKeepsStatus(rows, newUserId, p) ==
  [id \in DOMAIN rows |->
     IF id = newUserId
     THEN [rows[id] EXCEPT !.full_name = p.full_name,
                           !.username = p.username, !.role = p.role]
     ELSE rows[id]]

\* profiles.update({full_name, username, role, status: 'approved'})
\*   .eq('id', newUserId)
SetProfile(rows, newUserId, p) ==
  [id \in DOMAIN rows |->
     IF id = newUserId
     THEN [rows[id] EXCEPT !.full_name = p.full_name,
                           !.username = p.username, !.role = p.role,
                           !.status = "approved"]
     ELSE rows[id]]

\* the unique constraint profiles_username_key stands in the way
UsernameKeyTaken(rows, newUserId, username) ==
  \E id \in DOMAIN rows : id # newUserId /\ rows[id].username = username

\* an unused account id (a real one is a fresh UUID)
FreshIds == UserIds \ (DOMAIN authUsers \cup DOMAIN profiles)

Answer(status, req, newUserId, perr) ==
  [status |-> status, request |-> req, newUserId |-> newUserId,
   profileError |-> perr, authBefore |-> authUsers, before |-> profiles]

\* no request has been answered yet
NoResponse ==
  [status |-> 0,
   request |-> [method |-> "none", configured |-> FALSE, caller |-> "none",
                body |-> Unparsable],
   newUserId |-> NullUid, profileError |-> NoProfileError,
   authBefore |-> << >>, before |-> << >>]

InitEdgeIdle ==
  /\ authUsers = << >>
  /\ response = NoResponse

\* the handler answers before it creates anything: the preflight, missing
\* credentials, an unparsable body, the body null (the destructuring
\* throws outside the try block and serve answers 500), a missing field
EarlyStatus(req) ==
  IF req.method = "OPTIONS" THEN 200
  ELSE IF ~req.configured THEN 500
  ELSE IF req.body = Unparsable THEN 400
  ELSE IF req.body = JsonNull THEN 500
  ELSE IF \/ IsFalsyText(req.body.email)
          \/ IsFalsyText(req.body.password)
          \/ IsFalsyText(req.body.full_name)
          \/ IsFalsyText(req.body.username)
          \/ IsFalsyRole(req.body.role)
  THEN 400
  ELSE 0

\* a request that does not get to auth.admin.createUser
CreateUserRejected(req) ==
  /\ EarlyStatus(req) # 0
  /\ response' = Answer(EarlyStatus(req), req, NullUid, NoProfileError)
  /\ UNCHANGED <<profiles, authUsers, lastCall, uiVars, callVars, adminVars>>

\* auth.admin.createUser answers with an error or without a user object
CreateUserAuthFails(req, outcome, status) ==
  /\ EarlyStatus(req) = 0
  /\ outcome # "user"
  /\ outcome = "emailTaken"
       => \E id \in DOMAIN authUsers : authUsers[id] = req.body.email
  /\ response' =
       Answer(IF outcome = "noUser" THEN 500
              ELSE AuthErrorStatus(outcome, status),
              req, NullUid, NoProfileError)
  /\ UNCHANGED <<profiles, authUsers, lastCall, uiVars, callVars, adminVars>>

\* the account is created (with its profile row, if the database makes
\* one), the confirmation is repeated, the profile is updated and the
\* handler answers; other is the error of an update that fails for another
\* reason than a missing row or a taken username
CreateUserProceeds(req, hasRow, other) ==
  /\ EarlyStatus(req) = 0
  /\ \A id \in DOMAIN authUsers : authUsers[id] # req.body.email
  /\ FreshIds # {}
  /\ LET newUserId == Least(FreshIds)
         rows == IF hasRow
                 THEN [id \in DOMAIN profiles \cup {newUserId} |->
                         IF id = newUserId THEN DefaultRow(id)
                         ELSE profiles[id]]
                 ELSE profiles
         profileError ==
           IF ~hasRow THEN NoRowError
           ELSE IF UsernameKeyTaken(rows, newUserId, req.body.username)
           THEN UniqueViolation
           ELSE other
     IN  /\ authUsers' = [id \in DOMAIN authUsers \cup {newUserId} |->
                            IF id = newUserId THEN req.body.email
                            ELSE authUsers[id]]
         /\ IF profileError # NoProfileError
            THEN /\ profiles' = rows
                 /\ response' = Answer(ProfileErrorStatus(profileError), req,
                                       newUserId, profileError)
            ELSE /\ profiles' = SetProfile(rows, newUserId, req.body)
                 /\ response' = Answer(201, req, newUserId, NoProfileError)
  /\ UNCHANGED <<lastCall, uiVars, callVars, adminVars>>

\* a complete payload
SamplePayload ==
  [json |-> "object", email |-> <<98, 64>>, password |-> Rep(112, 6),
   full_name |-> <<70>>, username |-> <<65, 97, 65>>, role |-> "moderator"]

\* a complete payload whose role is none of the declared ones
UndeclaredRolePayload == [SamplePayload EXCEPT !.role = "SUPER_ADMIN"]

\* POST requests to a function that has its credentials, with any body
\* from an administrator and a few bodies from the other callers;
\* preflights and requests to a function without credentials
Requests ==
  [method : {"POST"}, configured : {TRUE}, caller : {"admin"},
   body : Bodies \cup {UndeclaredRolePayload}]
    \cup [method : {"POST"}, configured : {TRUE},
          caller : RequestCallers \ {"admin"},
          body : {Unparsable, JsonNull, SamplePayload, UndeclaredRolePayload}]
    \cup [method : {"OPTIONS"}, configured : BOOLEAN, caller : {"anonymous"},
          body : {Unparsable, JsonNull, SamplePayload}]
    \cup [method : {"POST"}, configured : {FALSE}, caller : {"admin"},
          body : {Unparsable, JsonNull, SamplePayload}]


(* ----------------- update_username, calls side by side ---------------- *)

\* a call that is not between two of its statements
IdleCall == [pc |-> "idle", arg |-> NullText]

\* no call is in progress; the column has the constraint that create-user
\* reports as profiles_username_key
InitCallsIdle ==
  /\ calls = [uid \in UserIds |-> IdleCall]
  /\ usernameKey = TRUE

\* usernames passed by the callers that run side by side
ConcurrentNames ==
  { <<97, 65>>, <<97, 97, 97>>, <<65, 97, 65>>, <<97, 98, 65>> }

\* SQLSTATE 23505 raised by the UPDATE
ErrUniqueViolation == "23505"

\* the UNIQUE constraint on profiles.username: another row holds exactly
\* this value (NULLs never conflict)
ViolatesUsernameKey(rows, uid, new_username) ==
  /\ usernameKey
  /\ ~IsNull(new_username)
  /\ \E id \in DOMAIN rows : id # uid /\ rows[id].username = new_username

\* the statements of update_username up to the IF EXISTS: the error they
\* raise, on the rows committed when the SELECT runs
ChecksRaise(rows, uid, new_username) ==
  IF TooShort(new_username) THEN ErrTooShort
  ELSE IF TooLong(new_username) THEN ErrTooLong
  ELSE IF BadChars(new_username) THEN ErrBadChars
  ELSE IF UsernameTaken(rows, uid, new_username) THEN ErrTaken
  ELSE NoError

\* uid calls rpc('update_username'): the validations and the IF EXISTS
\* run; the call ends with an exception or goes on to its UPDATE.  The
\* function takes no lock, so this can happen while other calls are
\* between their check and their UPDATE.
UpdateUsernameChecks(uid, new_username) ==
  /\ calls[uid].pc = "idle"
  /\ LET raised == ChecksRaise(profiles, uid, new_username)
     IN  IF raised # NoError
         THEN /\ lastCall' = [fn |-> "update_username", from |-> "rpc",
                              uid |-> uid, arg |-> new_username,
                              flag |-> FALSE, raised |-> raised,
                              ret |-> NullRecord, before |-> profiles]
              /\ UNCHANGED calls
         ELSE /\ calls' = [calls EXCEPT ![uid] =
                             [pc |-> "update", arg |-> new_username]]
              /\ UNCHANGED lastCall
  /\ UNCHANGED <<profiles, usernameKey, uiVars, adminVars, edgeVars>>

\* the UPDATE ... RETURNING of a call that passed its checks, and the
\* commit at the end of the call: the constraint, where it exists, is
\* tested on the rows committed by then
UpdateUsernameUpdates(uid) ==
  /\ calls[uid].pc = "update"
  /\ LET new_username == calls[uid].arg
         updated == SetUsername(profiles, uid, new_username)
     IN  IF ViolatesUsernameKey(profiles, uid, new_username)
         THEN /\ lastCall' = [fn |-> "update_username", from |-> "rpc",
                              uid |-> uid, arg |-> new_username,
                              flag |-> FALSE, raised |-> ErrUniqueViolation,
                              ret |-> NullRecord, before |-> profiles]
              /\ UNCHANGED profiles
         ELSE /\ profiles' = updated
              /\ lastCall' = [fn |-> "update_username", from |-> "rpc",
                              uid |-> uid, arg |-> new_username,
                              flag |-> FALSE, raised |-> NoError,
                              ret |-> Returning(updated, uid),
                              before |-> profiles]
  /\ calls' = [calls EXCEPT ![uid] = IdleCall]
  /\ UNCHANGED <<usernameKey, uiVars, adminVars, edgeVars>>

vars ==
  <<profiles, lastCall, factors, ctxTotp, dlg, enrolling, verif, dis, lastEvent,
    ctx, page, run, fetching, latestFetch, authUsers, response, calls, usernameKey>>

InitUsername ==
  InitDb([id \in UserIds |-> id = 1]) /\ InitAdminIdle /\ InitCallsIdle /\ InitEdgeIdle

NextUsername ==
  \/ \E uid \in Callers, n \in InputNames : UpdateUsername(uid, n)
  \/ \E uid \in UserIds, n \in InputNames : UsernameEditFormSubmit(uid, n)

\* update_username called directly or through UsernameEditForm by any
\* callers in any order, one call at a time
SpecUsername == InitUsername /\ [][NextUsername]_vars

InitSetTotp ==
  /\ \E flags \in [UserIds -> BOOLEAN] : InitDb(flags)
  /\ InitAdminIdle /\ InitCallsIdle
  /\ InitEdgeIdle

NextSetTotp == \E uid \in Callers, p \in BOOLEAN : SetTotpEnabled(uid, p)

\* set_totp_enabled called by any callers in any order, one call at a time
SpecSetTotp == InitSetTotp /\ [][NextSetTotp]_vars

\* every user has a profile row, nobody has TOTP enabled or a factor
InitTotp ==
  /\ profiles = [id \in UserIds |-> InitialRow(id, <<117, 48 + id, 95>>, FALSE)]
  /\ lastCall = NoCall
  /\ InitUi
  /\ InitAdminIdle /\ InitCallsIdle
  /\ InitEdgeIdle

NextTotp ==
  \/ OpenSetupDialog
  \/ CloseSetupDialog
  \/ \E ok \in BOOLEAN : EnrollReturns(ok)
  \/ \E six \in BOOLEAN : TypeVerificationCode(six)
  \/ HandleVerifyCode
  \/ \E i \in Slots, ok \in BOOLEAN : ChallengeReturns(i, ok)
  \/ \E i \in Slots, ok \in BOOLEAN, codes \in BOOLEAN : VerifyReturns(i, ok, codes)
  \/ \E i \in Slots, reached \in BOOLEAN : VerifyRpcReturns(i, reached)
  \/ \E i \in Slots, fetched \in BOOLEAN : VerifyRefreshReturns(i, fetched)
  \/ HandleRecoveryCodesSaved
  \/ \E nonEmpty \in BOOLEAN : TypeDisableCode(nonEmpty)
  \/ HandleDisableTotp
  \/ \E ok \in BOOLEAN : ListFactorsReturns(ok)
  \/ \E reached \in BOOLEAN : SyncRpcReturns(reached)
  \/ \E fetched \in BOOLEAN : SyncRefreshReturns(fetched)
  \/ \E ok \in BOOLEAN : ChallengeAndVerifyReturns(ok)
  \/ \E ok \in BOOLEAN : UnenrollReturns(ok)
  \/ \E reached \in BOOLEAN : DisableRpcReturns(reached)
  \/ \E fetched \in BOOLEAN : DisableRefreshReturns(fetched)

\* the TOTP section of Me's ProfilePage: TotpSetupDialog and handleDisableTotp
\* over the auth provider and the database
SpecTotp == InitTotp /\ [][NextTotp]_vars

\* every user has a profile row: Me with any role, the others as plain
\* users who wait for approval or were rejected
InitAdmin ==
  /\ \E role \in Roles :
       \E status \in [UserIds \ {Me} -> {"pending_approval", "rejected"}] :
         profiles =
           [id \in UserIds |->
              IF id = Me
              THEN [InitialRow(id, <<117, 48 + id, 95>>, FALSE)
                      EXCEPT !.role = role]
              ELSE [InitialRow(id, <<117, 48 + id, 95>>, FALSE)
                      EXCEPT !.status = status[id]]]
  /\ lastCall = NoCall
  /\ InitUi
  /\ InitAdminIdle /\ InitCallsIdle
  /\ InitEdgeIdle

NextAdmin ==
  \/ \E c \in NextContexts : ContextChanges(c)
  \/ \E k \in 1..MaxFetches, ok \in BOOLEAN : FetchUsersAnswered(k, ok)
  \/ \E userId \in UserIds : ClickApprove(userId)
  \/ \E ok \in BOOLEAN : ApproveReturns(ok)
  \/ \E userId \in UserIds, newRole \in {"moderator", "admin", "user"} :
       ClickChangeRole(userId, newRole)
  \/ \E ok \in BOOLEAN : ChangeRoleReturns(ok)
  \/ \E userId \in UserIds, confirmed \in BOOLEAN :
       ClickDelete(userId, confirmed)
  \/ \E ok \in BOOLEAN : DeleteReturns(ok)

\* UserManagementPage opened in Me's browser, over the auth context and the
\* database; every get_all_user_details call reads the rows as they are
\* when its answer arrives
SpecAdmin == InitAdmin /\ [][NextAdmin]_vars

\* Me is an administrator, the others wait for approval
InitFetches ==
  /\ profiles =
       [id \in UserIds |->
          IF id = Me
          THEN InitialRow(id, <<117, 48 + id, 95>>, FALSE)
          ELSE [InitialRow(id, <<117, 48 + id, 95>>, FALSE)
                  EXCEPT !.status = "pending_approval"]]
  /\ lastCall = NoCall
  /\ InitUi
  /\ InitAdminIdle /\ InitCallsIdle
  /\ InitEdgeIdle

NextFetches ==
  \/ \E c \in NextContexts : ContextChanges(c)
  \/ \E k \in 1..MaxFetches : FetchUsersServed(k)
  \/ \E k \in 1..MaxFetches, ok \in BOOLEAN : FetchUsersReturns(k, ok)
  \/ \E userId \in UserIds : ClickApprove(userId)
  \/ \E ok \in BOOLEAN : ApproveReturns(ok)

\* the same page with Approuver as the only row action used, and with
\* every get_all_user_details call run by the database at some moment
\* between the call and its answer
SpecFetches == InitFetches /\ [][NextFetches]_vars

\* one account with its profile exists
InitCreateUser ==
  /\ profiles = [id \in {Me} |-> InitialRow(id, <<97, 97, 97>>, FALSE)]
  /\ authUsers = [id \in {Me} |-> <<97, 64>>]
  /\ response = NoResponse
  /\ lastCall = NoCall
  /\ InitUi
  /\ InitAdminIdle /\ InitCallsIdle

NextCreateUser ==
  \/ \E req \in Requests : CreateUserRejected(req)
  \/ \E req \in Requests, outcome \in AuthOutcomes, status \in {0, 422, 500} :
       CreateUserAuthFails(req, outcome, status)
  \/ \E req \in Requests, hasRow \in BOOLEAN,
         other \in OtherProfileErrors \cup {NoProfileError} :
       CreateUserProceeds(req, hasRow, other)

\* requests to the create-user function, answered one at a time
SpecCreateUser == InitCreateUser /\ [][NextCreateUser]_vars

\* every user has a profile row; the usernames are unique ignoring case;
\* the column has the UNIQUE constraint or not
InitConcurrent ==
  /\ \E names \in [UserIds -> ConcurrentNames \cup {NullText}] :
       profiles = [id \in UserIds |-> InitialRow(id, names[id], FALSE)]
  /\ CaseInsensitiveUnique(profiles)
  /\ lastCall = NoCall
  /\ calls = [uid \in UserIds |-> IdleCall]
  /\ usernameKey \in BOOLEAN
  /\ InitUi
  /\ InitAdminIdle
  /\ InitEdgeIdle

NextConcurrent ==
  \/ \E uid \in UserIds, n \in ConcurrentNames : UpdateUsernameChecks(uid, n)
  \/ \E uid \in UserIds : UpdateUsernameUpdates(uid)

\* update_username called by several users at once, each call a
\* transaction at READ COMMITTED whose statements interleave with the
\* others'
SpecConcurrent == InitConcurrent /\ [][NextConcurrent]_vars

(* -------------------- properties of update_username ------------------ *)

\* the last completed call was update_username
WasUpdateUsername == lastCall.fn = "update_username"

\* n has 3 to 30 characters, all of them a-z, A-Z, 0-9, underscore or dot
ValidUsername(n) ==
  /\ ~IsNull(n)
  /\ Len(n) >= 3
  /\ Len(n) <= 30
  /\ \A i \in 1..Len(n) :
       \/ n[i] \in 97..122
       \/ n[i] \in 65..90
       \/ n[i] \in 48..57
       \/ n[i] = 95
       \/ n[i] = 46

\* in rows, a profile other than uid's has a username equal to n ignoring case
OtherProfileHasName(rows, uid, n) ==
  \E id \in DOMAIN rows :
    /\ id # uid
    /\ ~IsNull(rows[id].username)
    /\ ~IsNull(n)
    /\ lower(rows[id].username) = lower(n)

\* C1: starting from usernames that are unique ignoring letter case, after
\* any sequence of update_username calls, each run to completion, no two
\* distinct profiles have usernames that are equal ignoring letter case.
C1_UniqueIgnoringCase ==
  \A i, j \in DOMAIN profiles :
    (i # j /\ ~IsNull(profiles[i].username) /\ ~IsNull(profiles[j].username))
      => lower(profiles[i].username) # lower(profiles[j].username)

\* a call changed the caller's username while another profile has one too
C1_Witness ==
  /\ WasUpdateUsername
  /\ lastCall.raised = NoError
  /\ lastCall.uid \in DOMAIN profiles
  /\ profiles # lastCall.before
  /\ \E id \in DOMAIN profiles :
       id # lastCall.uid /\ ~IsNull(profiles[id].username)

\* C2 as stated: update_username(n) with n equal, ignoring case, to the
\* username of a profile other than the caller's raises 'Ce nom
\* d'utilisateur est deja pris.' and leaves every profile row unchanged.
C2_Original ==
  (WasUpdateUsername
     /\ OtherProfileHasName(lastCall.before, lastCall.uid, lastCall.arg))
    => (lastCall.raised = ErrTaken /\ profiles = lastCall.before)

\* C2 amended: update_username(n) by an authenticated caller (auth.uid() not
\* NULL), with n passing the length and character checks and equal, ignoring
\* case, to the username of a profile other than the caller's, raises 'Ce nom
\* d'utilisateur est deja pris.' and leaves every profile row unchanged.
C2_Amended ==
  (WasUpdateUsername
     /\ lastCall.uid # NullUid
     /\ ValidUsername(lastCall.arg)
     /\ OtherProfileHasName(lastCall.before, lastCall.uid, lastCall.arg))
    => (lastCall.raised = ErrTaken /\ profiles = lastCall.before)

\* an authenticated caller asked for a valid name that differs from another
\* profile's username in letter case only
C2_Witness ==
  /\ WasUpdateUsername
  /\ lastCall.uid # NullUid
  /\ ValidUsername(lastCall.arg)
  /\ OtherProfileHasName(lastCall.before, lastCall.uid, lastCall.arg)
  /\ \A id \in DOMAIN lastCall.before :
       lastCall.before[id].username # lastCall.arg

\* C3: update_username(n) raises an error and leaves every profile row
\* unchanged whenever n has fewer than 3 characters, more than 30 characters,
\* or a character other than a-z, A-Z, 0-9, underscore or dot.
C3_InvalidNameRejected ==
  (WasUpdateUsername /\ ~IsNull(lastCall.arg) /\ ~ValidUsername(lastCall.arg))
    => (lastCall.raised # NoError /\ profiles = lastCall.before)

\* a caller with a profile asked for a name of 31 characters
C3_Witness ==
  /\ WasUpdateUsername
  /\ lastCall.uid \in DOMAIN lastCall.before
  /\ Len(lastCall.arg) = 31
  /\ lastCall.raised = ErrTooLong

\* C4: a successful update_username changes only the username field of the
\* profile whose id is the caller's auth.uid(); every other row, and every
\* other field of the caller's row, is unchanged.
C4_OnlyCallersUsername ==
  (WasUpdateUsername /\ lastCall.raised = NoError)
    => /\ DOMAIN profiles = DOMAIN lastCall.before
       /\ \A id \in DOMAIN profiles :
            /\ id # lastCall.uid => profiles[id] = lastCall.before[id]
            /\ profiles[id].id = lastCall.before[id].id
            /\ profiles[id].full_name = lastCall.before[id].full_name
            /\ profiles[id].role = lastCall.before[id].role
            /\ profiles[id].status = lastCall.before[id].status
            /\ profiles[id].is_totp_enabled = lastCall.before[id].is_totp_enabled

\* a call changed the caller's username in a table with another row
C4_Witness ==
  /\ WasUpdateUsername
  /\ lastCall.raised = NoError
  /\ lastCall.uid \in DOMAIN profiles
  /\ profiles[lastCall.uid].username # lastCall.before[lastCall.uid].username
  /\ Cardinality(DOMAIN profiles) >= 2

\* C5 as stated: every update_username call that does not raise returns the
\* updated profile record, the caller's row with username equal to
\* new_username, also when no profile row exists for the caller.
C5_ReturnsUpdatedRow ==
  (WasUpdateUsername /\ lastCall.raised = NoError)
    => /\ Len(lastCall.ret) = 1
       /\ lastCall.ret[1].id = lastCall.uid
       /\ lastCall.ret[1].username = lastCall.arg

(* ---------------------- properties of the TOTP flows ------------------ *)

\* no handleVerifyCode and no handleDisableTotp run is in flight
NoTotpOperationInProgress ==
  /\ \A i \in Slots : verif[i].pc = "idle"
  /\ dis.pc = "idle"

\* Me has a verified TOTP factor at the auth provider
HasVerifiedFactor == \E f \in FactorIds : factors[f] = "verified"

\* C6 as stated: whenever no TOTP enable or disable operation is in progress,
\* the profile flag is_totp_enabled is true exactly when the user has a
\* verified TOTP factor, also in runs where a backend call fails.
C6_FlagMatchesVerifiedFactor ==
  NoTotpOperationInProgress
    => (profiles[Me].is_totp_enabled <=> HasVerifiedFactor)

\* a step in which run i of handleVerifyCode ends through its catch block
\* because mfa.challenge or mfa.verify failed
VerifyRunFailed(i) ==
  /\ verif[i].pc \in {"challenge", "verify"}
  /\ verif'[i].pc = "idle"

\* C7 as stated: in TotpSetupDialog set_totp_enabled(true) is called only
\* after mfa.challenge and then mfa.verify have both succeeded for the
\* enrolled factor; if either fails the RPC is not called, an error is shown
\* and the step remains 'verify'.
C7_RpcOnlyAfterVerifyElseError ==
  /\ [](\A i \in Slots :
          verif[i].pc = "rpc"
            => (verif[i].challengeId /\ verif[i].verifyData # "null"))
  /\ [][\A i \in Slots :
          VerifyRunFailed(i)
            => /\ lastCall' = lastCall
               /\ profiles' = profiles
               /\ dlg'.isOpen
               /\ renderContent(dlg') = "error"
               /\ dlg'.step = "verify"]_vars

\* a step in which the challengeAndVerify of handleDisableTotp failed
DisableVerificationFailed ==
  /\ dis.pc = "challengeAndVerify"
  /\ lastEvent' = "disableVerifyFailed"

\* C8: handleDisableTotp calls mfa.unenroll on a factor only after
\* challengeAndVerify with the entered code has succeeded for that same
\* factor; when the verification fails, neither mfa.unenroll nor
\* set_totp_enabled is called, so the factor stays enrolled and the profile
\* flag is unchanged.
C8_UnenrollOnlyAfterVerify ==
  /\ [](dis.pc = "unenroll"
          => (dis.totpFactor # NoFactor /\ dis.verified = dis.totpFactor))
  /\ [][DisableVerificationFailed
          => /\ dis'.pc = "idle"
             /\ ~dis.unenrolled
             /\ ~dis.rpcCalled
             /\ lastCall' = lastCall
             /\ factors' = factors
             /\ factors'[dis.totpFactor] = "verified"
             /\ profiles' = profiles]_vars

\* a disable run ended on a failed verification: the factor is still
\* verified and the flag still set
C8_Witness ==
  /\ lastEvent = "disableVerifyFailed"
  /\ dis.pc = "idle"
  /\ HasVerifiedFactor
  /\ profiles[Me].is_totp_enabled

(* ------------------- properties of set_totp_enabled ------------------- *)

\* the last completed call was set_totp_enabled
WasSetTotpEnabled == lastCall.fn = "set_totp_enabled"

\* C9: set_totp_enabled(p) sets is_totp_enabled to p on the caller's own
\* row only; every other row, and every other field of the caller's row, is
\* unchanged.
C9_OnlyCallersFlag ==
  WasSetTotpEnabled
    => /\ DOMAIN profiles = DOMAIN lastCall.before
       /\ \A id \in DOMAIN profiles :
            /\ id # lastCall.uid => profiles[id] = lastCall.before[id]
            /\ id = lastCall.uid => profiles[id].is_totp_enabled = lastCall.flag
            /\ profiles[id].id = lastCall.before[id].id
            /\ profiles[id].username = lastCall.before[id].username
            /\ profiles[id].full_name = lastCall.before[id].full_name
            /\ profiles[id].role = lastCall.before[id].role
            /\ profiles[id].status = lastCall.before[id].status

\* a call flipped the caller's flag in a table with another row
C9_Witness ==
  /\ WasSetTotpEnabled
  /\ lastCall.raised = NoError
  /\ lastCall.uid \in DOMAIN profiles
  /\ profiles[lastCall.uid].is_totp_enabled
       # lastCall.before[lastCall.uid].is_totp_enabled
  /\ Cardinality(DOMAIN profiles) >= 2

\* C10: set_totp_enabled raises 'User profile not found or not authorized to
\* update TOTP status.' when no profile row has the caller's id, and then
\* changes no row.
C10_NoProfileRaises ==
  (WasSetTotpEnabled /\ lastCall.uid \notin DOMAIN lastCall.before)
    => (lastCall.raised = ErrTotpNoProfile /\ profiles = lastCall.before)

\* an authenticated caller without a profile row called it on a table that
\* has rows
C10_Witness ==
  /\ WasSetTotpEnabled
  /\ lastCall.uid # NullUid
  /\ lastCall.uid \notin DOMAIN lastCall.before
  /\ DOMAIN lastCall.before # {}
  /\ lastCall.raised = ErrTotpNoProfile

(* ------------- handleDisableTotp without a verified factor ----------- *)

NoVerifiedFactor == \A f \in FactorIds : factors[f] # "verified"

InNoFactorPath == dis.pc \in {"syncRpc", "syncRefresh"}

\* C20: when handleDisableTotp finds no verified TOTP factor it calls
\* set_totp_enabled(false) and goes on to the profile refresh, it never
\* calls challengeAndVerify or unenroll on that path, the only call that
\* reaches the database from it is set_totp_enabled(false) for the caller,
\* and the run finishes with isDisablingTotp false and the code cleared
C20_NoFactorSyncsFlagOnly ==
  [][/\ (dis.pc = "listFactors" /\ dis'.pc # "listFactors" /\ NoVerifiedFactor)
         => /\ dis'.pc \in {"syncRpc", "idle"}
            /\ dis'.pc = "syncRpc" => dis'.rpcCalled
            /\ dis'.pc = "idle" => (~dis'.isDisablingTotp /\ ~dis'.code)
     /\ InNoFactorPath
         => /\ dis.rpcCalled
            /\ dis.totpFactor = NoFactor
            /\ dis.verified = NoFactor
            /\ ~dis.unenrolled
            /\ dis'.pc \notin {"challengeAndVerify", "unenroll", "rpc",
                               "refresh"}
     /\ (dis.pc = "syncRpc" /\ dis'.pc # "syncRpc")
         => /\ dis'.pc = "syncRefresh"
            /\ lastCall' # lastCall
                 => /\ lastCall'.fn = "set_totp_enabled"
                    /\ lastCall'.uid = Me
                    /\ lastCall'.flag = FALSE
     /\ (dis.pc = "syncRefresh" /\ dis'.pc # "syncRefresh")
         => /\ dis'.pc = "idle"
            /\ ~dis'.isDisablingTotp
            /\ ~dis'.code]_vars

\* a run that found no verified factor has synced the flag and finished
C20_Witness ==
  /\ lastEvent = "noFactorSynced"
  /\ lastCall.from = "handleDisableTotp"
  /\ lastCall.flag = FALSE
  /\ ~dis.isDisablingTotp
  /\ ~dis.code

(* ------------- UsernameEditForm schema and the RPC's checks ---------- *)

FormatErrors == {ErrTooShort, ErrTooLong, ErrBadChars}

\* C19: a username is accepted by the UsernameEditForm schema exactly when
\* the length and character checks of update_username let it through: a
\* call with a non-NULL name raises one of the three format errors iff the
\* schema rejects that name, and no call sent by the form raises one
C19_SchemaEqualsServerChecks ==
  (WasUpdateUsername /\ ~IsNull(lastCall.arg))
    => /\ usernameFormSchema(lastCall.arg)
            <=> lastCall.raised \notin FormatErrors
       /\ lastCall.from = "UsernameEditForm"
            => lastCall.raised \notin FormatErrors

\* the form sent a name of the greatest accepted length and the function
\* stored it
C19_Witness ==
  /\ WasUpdateUsername
  /\ lastCall.from = "UsernameEditForm"
  /\ usernameFormSchema(lastCall.arg)
  /\ char_length(lastCall.arg) = MaxUsernameLen
  /\ lastCall.raised = NoError
  /\ profiles # lastCall.before

(* ------------------ properties of UserManagementPage ----------------- *)

\* Me is signed in with a loaded profile whose role is admin or SUPER_ADMIN
SignedInAdministrator ==
  ~ctx.isAuthLoading /\ ctx.user # NullUid /\ IsAdminRole(ctx.role)

\* nobody is signed in, or Me is signed in with a profile of another role
NotAnAdministrator ==
  /\ ~ctx.isAuthLoading
  /\ ctx.user = NullUid \/ (ctx.role # NoRole /\ ~IsAdminRole(ctx.role))

\* a handler of the given kind sends its request in this step
Starts(kind) == run'.kind = kind /\ run' # run

\* C11: the page calls the get_all_user_details RPC only when
\* authentication has finished loading and the current profile's role is
\* admin or SUPER_ADMIN; for an unauthenticated visitor or a signed-in user
\* with another role no fetch is made, the users list is empty and an
\* access error message is set
C11_FetchOnlyForAdministrators ==
  /\ [][Len(fetching') > Len(fetching)
          => (~ctx'.isAuthLoading /\ ctx'.user # NullUid
                /\ IsAdminRole(ctx'.role))]_vars
  /\ [](NotAnAdministrator
          => /\ DOMAIN page.users = {}
             /\ page.error \in {ErrAccessDenied, ErrSignIn})

\* C12: handleDeleteUser never invokes delete-user-admin with the id of the
\* signed-in administrator: called with that id it ends with the toast,
\* whatever the prompt would answer; without an accepted prompt it invokes
\* nothing for anybody; and every delete-user-admin call that starts is for
\* another user, in a state where an accepted prompt leads to the call
C12_NeverDeletesSelf ==
  /\ [](SignedInAdministrator
          => \A confirmed \in BOOLEAN :
               handleDeleteUser(ctx.user, confirmed) = "toast")
  /\ [](\A userId \in UserIds : handleDeleteUser(userId, FALSE) # "invoke")
  /\ [][Starts("delete")
          => /\ SignedInAdministrator => run'.userId # ctx.user
             /\ handleDeleteUser(run'.userId, TRUE) = "invoke"]_vars

\* the administrator confirmed the deletion of another user and the call
\* to delete-user-admin is in flight
C12_Witness ==
  /\ SignedInAdministrator
  /\ run.kind = "delete"
  /\ run.userId # ctx.user

C14_StatusOnlyByApprove ==
  [][/\ Starts("approve")
          => /\ run'.userId \in DOMAIN page.users
             /\ page.users[run'.userId].status = "pending_approval"
             /\ run'.value = "approved"
     /\ \A id \in DOMAIN profiles \cap DOMAIN profiles' :
          profiles'[id].status # profiles[id].status
            => /\ profiles[id].status = "pending_approval"
               /\ profiles'[id].status = "approved"
               /\ run.kind = "approve"
               /\ run.userId = id
               /\ run' = IdleMutation
               /\ \A other \in (DOMAIN profiles \cap DOMAIN profiles') \ {id} :
                    profiles'[other].status = profiles[other].status]_vars

\* the page approved a user who was waiting for approval
C14_Witness ==
  /\ \E id \in DOMAIN profiles \ {Me} : profiles[id].status = "approved"
  /\ run = IdleMutation

\* C18: for each stored role useAuth returns canAdminister exactly for
\* admin and SUPER_ADMIN and canModerate exactly for moderator, admin and
\* SUPER_ADMIN, and canAdminister agrees with the page's admin check
C18_UseAuthMatchesStoredRoles ==
  ctx.role \in Roles
    => /\ useAuth(ctx.role).canAdminister
            <=> ctx.role \in {"admin", "SUPER_ADMIN"}
       /\ useAuth(ctx.role).canModerate
            <=> ctx.role \in {"moderator", "admin", "SUPER_ADMIN"}
       /\ useAuth(ctx.role).canAdminister <=> IsAdminRole(ctx.role)

(* --------------------- properties of create-user --------------------- *)

Answered == response.status # 0

\* the handler got to the profile update and the update failed
ProfileUpdateFailed ==
  Answered /\ response.newUserId # NullUid
    /\ response.profileError # NoProfileError

\* C15: a response with status 201 is given only if the account was
\* created by this request and the profile row of the new user holds the
\* requested full_name, username and role and the status approved
C15_CreatedOnlyWithProfile ==
  (Answered /\ response.status = 201)
    => LET id == response.newUserId
           p == response.request.body
       IN  /\ id # NullUid
           /\ id \notin DOMAIN response.authBefore
           /\ id \in DOMAIN authUsers
           /\ authUsers[id] = p.email
           /\ id \in DOMAIN profiles
           /\ profiles[id].full_name = p.full_name
           /\ profiles[id].username = p.username
           /\ profiles[id].role = p.role
           /\ profiles[id].status = "approved"
           /\ response.profileError = NoProfileError

\* a request was answered 201 after the new user's row was changed
C15_Witness ==
  /\ Answered
  /\ response.status = 201
  /\ response.newUserId \in DOMAIN profiles
  /\ profiles[response.newUserId] # DefaultRow(response.newUserId)

\* the body cannot be parsed, or one of the five fields is missing or empty
InvalidBody(body) ==
  \/ body.json = "unparsable"
  \/ IsFalsyText(body.email)
  \/ IsFalsyText(body.password)
  \/ IsFalsyText(body.full_name)
  \/ IsFalsyText(body.username)
  \/ IsFalsyRole(body.role)

\* C16, for a POST request to a function that has its credentials: if the
\* body is unparsable or any of email, password, full_name, username, role
\* is missing or empty, the response has status 400, no account is created
\* and no profile row is modified
C16_InvalidBodyRejected ==
  (Answered /\ response.request.method = "POST"
     /\ response.request.configured
     /\ InvalidBody(response.request.body))
    => /\ response.status = 400
       /\ authUsers = response.authBefore
       /\ profiles = response.before

\* C17: when the profile update fails after the account was created, the
\* status is not 201: it is 409 for a unique violation, otherwise 500 or
\* the status the error carries; the account stays and the rows that
\* existed before the request are as they were
C17_ProfileFailureKeepsAccount ==
  ProfileUpdateFailed
    => LET err == response.profileError
       IN  /\ response.status # 201
           /\ response.status >= 400
           /\ (err.code = "23505" \/ err.unique) => response.status = 409
           /\ ~(err.code = "23505" \/ err.unique)
                => response.status \in {500, err.status}
           /\ response.newUserId \in DOMAIN authUsers
           /\ response.newUserId \notin DOMAIN response.authBefore
           /\ \A id \in DOMAIN response.before :
                id \in DOMAIN profiles /\ profiles[id] = response.before[id]

\* the update hit the taken username, the request was answered 409 and the
\* new account exists with an untouched profile row
C17_Witness ==
  /\ ProfileUpdateFailed
  /\ response.profileError = UniqueViolation
  /\ response.status = 409
  /\ response.newUserId \in DOMAIN authUsers
  /\ response.newUserId \in DOMAIN profiles
  /\ profiles[response.newUserId] = DefaultRow(response.newUserId)

(* -------------------- properties of TotpSetupDialog ------------------ *)

\* this step is the end of an enrollTotp run whose mfa.enroll succeeded:
\* the provider has created a factor, which the dialog now holds
EnrollSucceeded ==
  /\ enrolling > 0
  /\ \E f \in FactorIds :
       /\ factors[f] = "none"
       /\ factors'[f] = "unverified"
       /\ dlg'.factorId = f

\* this step is the end of a handleVerifyCode run whose mfa.verify
\* succeeded, with recovery codes in its answer or without
VerifySucceeded(data) ==
  \E i \in Slots :
    /\ verif[i].pc = "refresh"
    /\ verif[i].verifyData = data
    /\ verif'[i] = IdleRun

\* C21: the step of TotpSetupDialog changes only from 'enroll' to 'verify'
\* at the end of a successful mfa.enroll, from 'verify' to 'recoveryCodes'
\* after a successful mfa.verify that returned recovery codes, from 'verify'
\* to 'completed' after a successful mfa.verify without codes, from
\* 'recoveryCodes' to 'completed', or back to 'enroll'
C21_StepOrder ==
  [][dlg'.step # dlg.step
       => \/ dlg'.step = "enroll"
          \/ /\ dlg.step = "enroll"
             /\ dlg'.step = "verify"
             /\ EnrollSucceeded
          \/ /\ dlg.step = "verify"
             /\ dlg'.step = "recoveryCodes"
             /\ VerifySucceeded("codes")
          \/ /\ dlg.step = "verify"
             /\ dlg'.step = "completed"
             /\ VerifySucceeded("nocodes")
          \/ /\ dlg.step = "recoveryCodes"
             /\ dlg'.step = "completed"]_vars

(* ------------- properties of update_username, side by side ----------- *)

\* C22: when update_username calls by different users run side by side,
\* the check and the UPDATE of one interleaved with those of another, then
\* once the calls have ended no two distinct profiles have usernames that
\* are equal ignoring letter case
C22_ConcurrentUniqueIgnoringCase ==
  (\A uid \in UserIds : calls[uid].pc = "idle")
    => CaseInsensitiveUnique(profiles)

(* ------------------ properties of overlapping fetches ---------------- *)

\* C23: on the page of a signed-in administrator, isLoading is false only
\* when no fetchUsers run is in flight, and when the last of several
\* overlapping runs ends after the run started last has got its data,
\* users holds the data of the run started last
C23_OverlappingFetches ==
  /\ [](SignedInAdministrator /\ ~page.isLoading => fetching = << >>)
  /\ [][(/\ SignedInAdministrator
         /\ ctx' = ctx
         /\ Len(fetching) = 1
         /\ fetching' = << >>
         /\ latestFetch.state = "data")
          => page'.users = latestFetch.data]_vars

(* ------------------ properties of create-user callers ---------------- *)

\* the last request created an account
CreatedAccount ==
  /\ Answered
  /\ response.newUserId # NullUid
  /\ response.newUserId \in DOMAIN authUsers
  /\ response.newUserId \notin DOMAIN response.authBefore

\* C24: the create-user function creates an account and assigns a role
\* only for a request of a caller who is signed in with role admin or
\* SUPER_ADMIN, and a role it assigns is user, moderator or admin
C24_OnlyAdministratorsCreate ==
  /\ CreatedAccount => response.request.caller \in {"admin", "SUPER_ADMIN"}
  /\ (CreatedAccount /\ response.status = 201)
       => profiles[response.newUserId].role \in {"user", "moderator", "admin"}

====
